---- MODULE Spec2Model ----
(***************************************************************************)
(* Model of the homedy listings pipeline:                                  *)
(*   - parse_price_to_million and main of src/data/homedy/clean_data.py    *)
(*   - crawl of src/data/homedy/homedy_crawler.py                          *)
(*                                                                         *)
(* Texts are sequences of characters.  A character is a one-letter string; *)
(* the non-ASCII characters the code names are written                     *)
(*   "y_hook" = U+1EF7 (y with hook above)   "y_dot" = U+1EF5              *)
(*   "e_circ_dot" = U+1EC7   "e_circ" = U+00EA   "o_hook" = U+1ECF         *)
(*   "a_circ_dot" = U+1EAD                                                 *)
(*   "nbsp" = U+00A0   "endash" = U+2013   "emdash" = U+2014               *)
(* Python floats are modelled as exact rationals [n, d] in lowest terms.   *)
(***************************************************************************)
EXTENDS Integers, Sequences, FiniteSets, TLC

VARIABLES
    \* parse_price_to_million
    s, ppc, raw, low, unit, nums, ret,
    \* main
    df, mpc, out, out_imputed,
    \* crawl
    url, page, results, cpc, soup, fetched, failed_at

priceVars == <<s, ppc, raw, low, unit, nums, ret>>
cleanVars == <<df, mpc, out, out_imputed>>
crawlVars == <<url, page, results, cpc, soup, fetched, failed_at>>
vars == <<priceVars, cleanVars, crawlVars>>

----------------------------------------------------------------------------
(* Bounds of the model *)

MaxTokens == 4
MaxRows == 3
MaxPages == 3

----------------------------------------------------------------------------
(* Exact rationals standing for Python floats *)

RECURSIVE GCD(_, _)
GCD(a, b) == IF b = 0 THEN a ELSE GCD(b, a % b)

Abs(x) == IF x < 0 THEN -x ELSE x

Rat(n, d) ==
    LET g == GCD(Abs(n), d)
    IN  [n |-> n \div g, d |-> d \div g]

LCM(a, b) == (a \div GCD(a, b)) * b

RatAdd(a, b) ==
    LET m == LCM(a.d, b.d)
    IN  Rat(a.n * (m \div a.d) + b.n * (m \div b.d), m)

RatDivInt(a, k) ==
    LET g == GCD(Abs(a.n), k)
    IN  Rat(a.n \div g, a.d * (k \div g))

RatMulInt(a, k) ==
    LET g == GCD(k, a.d)
    IN  Rat(a.n * (k \div g), a.d \div g)

RatLt(a, b) == a.n * b.d < b.n * a.d
RatLe(a, b) == a.n * b.d <= b.n * a.d
RatOfInt(k) == [n |-> k, d |-> 1]

RECURSIVE Pow10(_)
Pow10(k) == IF k = 0 THEN 1 ELSE 10 * Pow10(k - 1)

----------------------------------------------------------------------------
(* Characters and the str methods the code uses *)

Digits == {"0", "1", "2", "3", "4", "5", "6", "7", "8", "9"}

DigitVal(c) ==
    CASE c = "0" -> 0 [] c = "1" -> 1 [] c = "2" -> 2 [] c = "3" -> 3
      [] c = "4" -> 4 [] c = "5" -> 5 [] c = "6" -> 6 [] c = "7" -> 7
      [] c = "8" -> 8 [] c = "9" -> 9

IsDigit(c) == c \in Digits

\* str.isspace(), also what \s matches in a str pattern
IsSpace(c) == c \in {" ", "nbsp"}

\* str.lower() on one character
LowerChar(c) ==
    CASE c = "T" -> "t"
      [] c = "Y" -> "y"
      [] c = "M" -> "m"
      [] OTHER -> c

lower(str) == [i \in 1..Len(str) |-> LowerChar(str[i])]

RECURSIVE lstrip(_)
lstrip(str) ==
    IF str # <<>> /\ IsSpace(Head(str)) THEN lstrip(Tail(str)) ELSE str

RECURSIVE rstrip(_)
rstrip(str) ==
    IF str # <<>> /\ IsSpace(str[Len(str)])
    THEN rstrip(SubSeq(str, 1, Len(str) - 1))
    ELSE str

strip(str) == rstrip(lstrip(str))

\* sub in str
Contains(str, sub) ==
    \E i \in 1..(Len(str) - Len(sub) + 1) :
        \A k \in 1..Len(sub) : str[i + k - 1] = sub[k]

\* str.count(c) for a single character
Count(str, c) == Cardinality({i \in 1..Len(str) : str[i] = c})

\* str.replace(c, '') for a single character
RECURSIVE Remove(_, _)
Remove(str, c) ==
    IF str = <<>> THEN <<>>
    ELSE IF Head(str) = c THEN Remove(Tail(str), c)
    ELSE <<Head(str)>> \o Remove(Tail(str), c)

----------------------------------------------------------------------------
(* parse_price_to_million, clean_data.py lines 22-103 *)

thoa_hook == <<"t", "h", "o_hook", "a">>
thoa_plain == <<"t", "h", "o", "a">>
thoa_thuan == <<"t", "h", "o_hook", "a", " ", "t", "h", "u", "a_circ_dot", "n">>

\* line 34
IsNegotiable(lw) ==
    Contains(lw, thoa_hook) \/ Contains(lw, thoa_plain) \/ Contains(lw, thoa_thuan)

\* line 39
NormalizeChar(c) ==
    CASE c = "endash" -> "-"
      [] c = "emdash" -> "-"
      [] c = "nbsp" -> " "
      [] OTHER -> c

\* the characters the class of line 41 keeps
AllowedChars ==
    Digits \cup {",", ".", "-", " ", "nbsp"}
           \cup {"t", "y", "y_hook", "r", "i", "e_circ_dot", "u", "e",
                 "M", "H", "z", "K", "m", "B", "b", "k"}

\* re.sub of line 41
SubDisallowed(str) ==
    [i \in 1..Len(str) |-> IF str[i] \in AllowedChars THEN str[i] ELSE " "]

\* lines 39-42
Normalize(r) ==
    strip(SubDisallowed([i \in 1..Len(r) |-> NormalizeChar(r[i])]))

\* re.search(r'ty|tỵ|t(y with hook)', low), lines 46 and 82
HasTy(lw) ==
    \/ Contains(lw, <<"t", "y">>)
    \/ Contains(lw, <<"t", "y_dot">>)
    \/ Contains(lw, <<"t", "y_hook">>)

\* line 48
HasTrieu(lw) ==
    \/ Contains(lw, <<"t", "r", "i", "e_circ_dot", "u">>)
    \/ Contains(lw, <<"t", "r", "i", "e", "u">>)

\* re.search(r'tri[e(e_circ)]u|trieu', low), line 80
HasTrieuLatin(lw) ==
    \/ Contains(lw, <<"t", "r", "i", "e", "u">>)
    \/ Contains(lw, <<"t", "r", "i", "e_circ", "u">>)

\* DetectUnit with the two tests in the other order
DetectUnit_TrieuFirst(lw) ==
    IF HasTrieu(lw) THEN "trieu"
    ELSE IF HasTy(lw) THEN "ty"
    ELSE "None"

\* lines 45-49
DetectUnit(lw) ==
    IF HasTy(lw) THEN "ty"
    ELSE IF HasTrieu(lw) THEN "trieu"
    ELSE "None"

\* number of whitespace characters of str from index i on
RECURSIVE SpaceRun(_, _)
SpaceRun(str, i) ==
    IF i <= Len(str) /\ IsSpace(str[i]) THEN 1 + SpaceRun(str, i + 1) ELSE 0

\* number of digits of str from index i on
RECURSIVE DigitRun(_, _)
DigitRun(str, i) ==
    IF i <= Len(str) /\ IsDigit(str[i]) THEN 1 + DigitRun(str, i + 1) ELSE 0

\* the index of the first digit of str from i on, or 0
RECURSIVE FirstDigit(_, _)
FirstDigit(str, i) ==
    IF i > Len(str) THEN 0
    ELSE IF IsDigit(str[i]) THEN i
    ELSE FirstDigit(str, i + 1)

At(str, i) == IF i >= 1 /\ i <= Len(str) THEN str[i] ELSE "eos"

\* The pattern of line 52, \s*-\s*|\sto\s|\s(endash)\s, tried at index i:
\* the index after the match, or 0 when none of the alternatives matches.
SepMatchEnd(str, i) ==
    LET j == i + SpaceRun(str, i)
    IN  IF At(str, j) = "-" THEN j + 1 + SpaceRun(str, j + 1)
        ELSE IF /\ IsSpace(At(str, i)) /\ At(str, i + 1) = "t"
                /\ At(str, i + 2) = "o" /\ IsSpace(At(str, i + 3))
             THEN i + 4
        ELSE IF /\ IsSpace(At(str, i)) /\ At(str, i + 1) = "endash"
                /\ IsSpace(At(str, i + 2))
             THEN i + 3
        ELSE 0

\* the leftmost index from i on where the pattern of line 52 matches, or 0
RECURSIVE FirstSep(_, _)
FirstSep(str, i) ==
    IF i > Len(str) THEN 0
    ELSE IF SepMatchEnd(str, i) # 0 THEN i
    ELSE FirstSep(str, i + 1)

\* re.split of line 52
RECURSIVE re_split(_)
re_split(str) ==
    LET i == FirstSep(str, 1)
    IN  IF i = 0 THEN <<str>>
        ELSE <<SubSeq(str, 1, i - 1)>>
                 \o re_split(SubSeq(str, SepMatchEnd(str, i), Len(str)))

\* re.search(r'[0-9]+[\.,]?[0-9]*', p).group(0) of line 59; <<>> when no match
NumberMatch(p) ==
    LET i == FirstDigit(p, 1)
    IN  IF i = 0 THEN <<>>
        ELSE LET j == i + DigitRun(p, i)
                 k == IF At(p, j) \in {".", ","} THEN j + 1 ELSE j
                 e == k + DigitRun(p, k)
             IN  SubSeq(p, i, e - 1)

\* lines 64-67
FixSeparators(num_s) ==
    IF Count(num_s, ",") = 1 /\ Count(num_s, ".") = 0
    THEN [i \in 1..Len(num_s) |-> IF num_s[i] = "," THEN "." ELSE num_s[i]]
    ELSE Remove(num_s, ",")

RECURSIVE DigitsToInt(_)
DigitsToInt(ds) ==
    IF ds = <<>> THEN 0
    ELSE 10 * DigitsToInt(SubSeq(ds, 1, Len(ds) - 1)) + DigitVal(ds[Len(ds)])

\* the index of the first '.' of str from i on, or 0
RECURSIVE FirstDot(_, _)
FirstDot(str, i) ==
    IF i > Len(str) THEN 0
    ELSE IF str[i] = "." THEN i
    ELSE FirstDot(str, i + 1)

\* float(num_s) of line 69, for digits with at most one '.'
ToFloat(num_s) ==
    LET i == FirstDot(num_s, 1)
    IN  IF i = 0 THEN RatOfInt(DigitsToInt(num_s))
        ELSE LET ip == SubSeq(num_s, 1, i - 1)
                 fp == SubSeq(num_s, i + 1, Len(num_s))
             IN  Rat(DigitsToInt(ip) * Pow10(Len(fp)) + DigitsToInt(fp),
                     Pow10(Len(fp)))

\* lines 53-72: the numbers of the parts, one at most for each part
RECURSIVE PartsToNums(_)
PartsToNums(parts) ==
    IF parts = <<>> THEN <<>>
    ELSE LET p == strip(Head(parts))
             m == NumberMatch(p)
         IN  IF p = <<>> \/ m = <<>> THEN PartsToNums(Tail(parts))
             ELSE <<ToFloat(FixSeparators(m))>> \o PartsToNums(Tail(parts))

ExtractNums(r) == PartsToNums(re_split(r))

\* ' t ' in (' ' + low + ' ') of line 90
HasStandaloneT(lw) == Contains(<<" ">> \o lw \o <<" ">>, <<" ", "t", " ">>)

AnyGt1000(ns) == \E i \in 1..Len(ns) : RatLt(RatOfInt(1000), ns[i])
AnyLt100(ns) == \E i \in 1..Len(ns) : RatLt(ns[i], RatOfInt(100))
AnyLe1000(ns) == \E i \in 1..Len(ns) : RatLe(ns[i], RatOfInt(1000))

\* InferUnit with the default of line 94 the other way round
InferUnit_DefaultTrieu(u, lw, ns) ==
    IF u # "None" THEN u
    ELSE IF HasTrieuLatin(lw) THEN "trieu"
    ELSE IF HasTy(lw) THEN "ty"
    ELSE IF AnyGt1000(ns) THEN "trieu"
    ELSE IF AnyLt100(ns) /\ (Contains(lw, <<"t", "y">>) \/ HasStandaloneT(lw))
         THEN "ty"
    ELSE IF AnyLe1000(ns) THEN "trieu" ELSE "ty"

\* lines 78-94
InferUnit(u, lw, ns) ==
    IF u # "None" THEN u
    ELSE IF HasTrieuLatin(lw) THEN "trieu"
    ELSE IF HasTy(lw) THEN "ty"
    ELSE IF AnyGt1000(ns) THEN "trieu"
    ELSE IF AnyLt100(ns) /\ (Contains(lw, <<"t", "y">>) \/ HasStandaloneT(lw))
         THEN "ty"
    ELSE IF AnyLe1000(ns) THEN "ty" ELSE "trieu"

RECURSIVE RatSum(_)
RatSum(ns) ==
    IF ns = <<>> THEN RatOfInt(0) ELSE RatAdd(Head(ns), RatSum(Tail(ns)))

\* statistics.mean
mean(ns) == RatDivInt(RatSum(ns), Len(ns))

\* lines 97-103
ToMillion(u, ns) ==
    IF u = "ty" THEN RatMulInt(mean(ns), 1000) ELSE mean(ns)

NoneVal == [kind |-> "None"]
FloatVal(q) == [kind |-> "float", val |-> q]
Raised(e) == [kind |-> "raise", exc |-> e]
Pending == [kind |-> "pending"]

NonText == [isstr |-> FALSE, chars |-> <<>>]
Text(cs) == [isstr |-> TRUE, chars |-> cs]

\* line 35: raw is a str, which has no attribute pd
NegotiableOutcome == Raised("AttributeError")

\* The whole function: what it leaves in its locals and how it ends
parse_price_to_million(x) ==
    LET r0 == strip(x.chars)
        lw == lower(r0)
        r1 == Normalize(r0)
        u0 == DetectUnit(lw)
        ns == ExtractNums(r1)
        none == [raw |-> <<>>, low |-> <<>>, unit |-> "None", nums |-> <<>>]
    IN  IF ~x.isstr THEN [none EXCEPT !.raw = <<>>] @@ [ret |-> NoneVal]
        ELSE IF r0 = <<>> THEN none @@ [ret |-> NoneVal]
        ELSE IF IsNegotiable(lw)
             THEN [none EXCEPT !.raw = r0, !.low = lw] @@ [ret |-> NegotiableOutcome]
        ELSE IF ns = <<>>
             THEN [raw |-> r1, low |-> lw, unit |-> u0, nums |-> ns, ret |-> NoneVal]
        ELSE LET u1 == InferUnit(u0, lw, ns)
             IN  [raw |-> r1, low |-> lw, unit |-> u1, nums |-> ns,
                  ret |-> FloatVal(ToMillion(u1, ns))]

----------------------------------------------------------------------------
(* Price texts: every concatenation of at most MaxTokens of these pieces.   *)
(* A number starts with a space, so that two of them never join into one   *)
(* digit run.                                                              *)

Tokens ==
    { <<" ", "5">>,
      <<" ", "5", ",", "2">>,
      <<" ", "1", "2", ",", "5">>,
      <<" ", "5", "8">>,
      <<" ", "5", "0", "0">>,
      <<" ", "1", "5", "0", "0">>,
      <<" ", "1", ",", "2", "3", "4", ",", "5", "6", "7">>,
      <<" ", "1", "2", ".", "5", "0", "0">>,
      <<" ", "-">>,
      <<" ", "t", "o">>,
      <<"nbsp", "endash">>,
      <<" ", "T", "y_hook">>,
      <<"t", "y">>,
      <<" ", "T", "r", "i", "e_circ_dot", "u">>,
      <<" ", "t", "r", "i", "e_circ", "u">>,
      <<"T", "h", "o_hook", "a", " ", "t", "h", "u", "a_circ_dot", "n">>,
      <<"t", "h", "o", "a">>,
      <<" ", "t">> }

RECURSIVE Flatten(_)
Flatten(ts) == IF ts = <<>> THEN <<>> ELSE Head(ts) \o Flatten(Tail(ts))

PriceTexts ==
    {Flatten(ts) : ts \in UNION {[1..n -> Tokens] : n \in 0..MaxTokens}}

PriceInputs == {NonText} \cup {Text(cs) : cs \in PriceTexts}

----------------------------------------------------------------------------
(* Idle values of the variables of the parts a specification leaves alone *)

IdlePrice ==
    /\ s = NonText /\ ppc = "idle" /\ raw = <<>> /\ low = <<>>
    /\ unit = "None" /\ nums = <<>> /\ ret = Pending

IdleClean ==
    /\ df = <<>> /\ mpc = "idle" /\ out = <<>> /\ out_imputed = <<>>

IdleCrawl ==
    /\ url = "" /\ page = 0 /\ results = <<>> /\ cpc = "idle"
    /\ soup = [items |-> <<>>, next |-> ""] /\ fetched = <<>> /\ failed_at = 0

----------------------------------------------------------------------------
(* Specification of parse_price_to_million: one call on one input *)

InitPrice ==
    /\ s \in PriceInputs
    /\ ppc = "call"
    /\ raw = <<>> /\ low = <<>> /\ unit = "None" /\ nums = <<>>
    /\ ret = Pending
    /\ IdleClean /\ IdleCrawl

\* the call ends as parse_price_to_million(s) says
Finish(r) ==
    /\ ppc' = "returned"
    /\ raw' = r.raw /\ low' = r.low /\ unit' = r.unit /\ nums' = r.nums
    /\ ret' = r.ret
    /\ UNCHANGED <<s, cleanVars, crawlVars>>

\* lines 28-29
ReturnNonText ==
    /\ ppc = "call" /\ ~s.isstr
    /\ Finish(parse_price_to_million(s))

\* lines 30-32
ReturnEmpty ==
    /\ ppc = "call" /\ s.isstr /\ strip(s.chars) = <<>>
    /\ Finish(parse_price_to_million(s))

\* lines 33-36
NegotiableBranch ==
    /\ ppc = "call" /\ s.isstr /\ strip(s.chars) # <<>>
    /\ IsNegotiable(lower(strip(s.chars)))
    /\ Finish(parse_price_to_million(s))

\* lines 38-75
ReturnNoNums ==
    /\ ppc = "call" /\ s.isstr /\ strip(s.chars) # <<>>
    /\ ~IsNegotiable(lower(strip(s.chars)))
    /\ ExtractNums(Normalize(strip(s.chars))) = <<>>
    /\ Finish(parse_price_to_million(s))

\* lines 38-103
ReturnValue ==
    /\ ppc = "call" /\ s.isstr /\ strip(s.chars) # <<>>
    /\ ~IsNegotiable(lower(strip(s.chars)))
    /\ ExtractNums(Normalize(strip(s.chars))) # <<>>
    /\ Finish(parse_price_to_million(s))

NextPrice ==
    \/ ReturnNonText
    \/ ReturnEmpty
    \/ NegotiableBranch
    \/ ReturnNoNums
    \/ ReturnValue

SpecPrice == InitPrice /\ [][NextPrice]_vars

\* The same call on the texts built from the pieces the unit rules read
UnitTokens ==
    { <<" ", "5">>,
      <<" ", "5", ",", "2">>,
      <<" ", "1", "2", ",", "5">>,
      <<" ", "5", "8">>,
      <<" ", "1", "5", "0", "0">>,
      <<" ", "-">>,
      <<" ", "T", "y_hook">>,
      <<"t", "y">>,
      <<" ", "T", "r", "i", "e_circ_dot", "u">>,
      <<" ", "t", "r", "i", "e_circ", "u">>,
      <<"t", "h", "o", "a">>,
      <<" ", "t">> }

UnitTexts ==
    {Flatten(ts) : ts \in UNION {[1..n -> UnitTokens] : n \in 0..MaxTokens}}

InitUnits ==
    /\ s \in {NonText} \cup {Text(cs) : cs \in UnitTexts}
    /\ ppc = "call"
    /\ raw = <<>> /\ low = <<>> /\ unit = "None" /\ nums = <<>>
    /\ ret = Pending
    /\ IdleClean /\ IdleCrawl

SpecUnits == InitUnits /\ [][NextPrice]_vars

----------------------------------------------------------------------------
(* main, clean_data.py lines 136-210.  A row of the table holds the         *)
(* columns the cleaning of url, price and area reads and writes.           *)

NaN == [na |-> TRUE, val |-> RatOfInt(0)]
Num(q) == [na |-> FALSE, val |-> q]

\* pd.to_numeric(text, errors='coerce') on one cell: [-]digits[.digits]
to_numeric(cell) ==
    LET cs == cell.chars
        neg == cs # <<>> /\ Head(cs) = "-"
        body == IF neg THEN Tail(cs) ELSE cs
        i == DigitRun(body, 1)
        rest == SubSeq(body, i + 1, Len(body))
        frac == IF rest # <<>> /\ Head(rest) = "." THEN Tail(rest) ELSE <<>>
        wellformed ==
            /\ i >= 1
            /\ \/ rest = <<>>
               \/ /\ Head(rest) = "."
                  /\ DigitRun(frac, 1) = Len(frac)
        q == ToFloat(body)
    IN  IF ~cell.isstr \/ ~wellformed THEN NaN
        ELSE Num(IF neg THEN [q EXCEPT !.n = -q.n] ELSE q)

\* AreaInRange with < 0 in place of <= 0
AreaInRange_ZeroKept(a) ==
    ~(RatLt(a.val, RatOfInt(0)) \/ RatLt(RatOfInt(2000), a.val))

\* line 175: out of range becomes NA
AreaInRange(a) ==
    ~(RatLe(a.val, RatOfInt(0)) \/ RatLt(RatOfInt(2000), a.val))

\* lines 173-175 on one cell
clean_area(cell) ==
    LET a == to_numeric(cell)
    IN  IF a.na THEN NaN
        ELSE IF AreaInRange(a) THEN a ELSE NaN

\* drop_duplicates with keep='last'
RECURSIVE drop_duplicates_last(_, _)
drop_duplicates_last(rows, seen) ==
    IF rows = <<>> THEN <<>>
    ELSE IF \E i \in 2..Len(rows) : rows[i].url = Head(rows).url
         THEN drop_duplicates_last(Tail(rows), seen)
    ELSE <<Head(rows)>> \o drop_duplicates_last(Tail(rows), seen)

\* df.drop_duplicates(subset=['url']), line 146: the first row of each url
RECURSIVE drop_duplicates(_, _)
drop_duplicates(rows, seen) ==
    IF rows = <<>> THEN <<>>
    ELSE IF Head(rows).url \in seen THEN drop_duplicates(Tail(rows), seen)
    ELSE <<Head(rows)>>
             \o drop_duplicates(Tail(rows), seen \cup {Head(rows).url})

\* line 154 on one row: what parse_price_to_million ends with
PriceOf(row) == parse_price_to_million(row.price_raw).ret

\* lines 154-196 on one row that parsed
CleanRow(row) ==
    [url |-> row.url,
     price_raw_orig |-> row.price_raw,
     price_million |-> PriceOf(row),
     area_m2 |-> clean_area(row.area_m2)]

\* the present values of a column, in row order
RECURSIVE Present(_)
Present(rows) ==
    IF rows = <<>> THEN <<>>
    ELSE IF Head(rows).area_m2.na THEN Present(Tail(rows))
    ELSE <<Head(rows).area_m2.val>> \o Present(Tail(rows))

RECURSIVE Insert(_, _)
Insert(q, sorted) ==
    IF sorted = <<>> THEN <<q>>
    ELSE IF RatLe(q, Head(sorted)) THEN <<q>> \o sorted
    ELSE <<Head(sorted)>> \o Insert(q, Tail(sorted))

RECURSIVE Sort(_)
Sort(qs) == IF qs = <<>> THEN <<>> ELSE Insert(Head(qs), Sort(Tail(qs)))

\* median that takes the lower middle value of an even number of values
median_low(qs) ==
    LET srt == Sort(qs)
        n == Len(qs)
    IN  IF n = 0 THEN NaN ELSE Num(srt[(n + 1) \div 2])

\* Series.median(), line 200: NaN when no value is present
median(qs) ==
    LET srt == Sort(qs)
        n == Len(qs)
    IN  IF n = 0 THEN NaN
        ELSE IF n % 2 = 1 THEN Num(srt[(n + 1) \div 2])
        ELSE Num(RatDivInt(RatAdd(srt[n \div 2], srt[n \div 2 + 1]), 2))

\* Series.fillna(area_med), line 202: filling with NaN fills nothing
fillna(a, med) == IF a.na THEN med ELSE a

Urls == {"u1", "u2", "u3"}

PriceCells ==
    { Text(<<"5", " ", "T", "y_hook">>),
      Text(<<"T", "h", "o_hook", "a", " ", "t", "h", "u", "a_circ_dot", "n">>) }

AreaCells ==
    { Text(<<"a">>),
      Text(<<"0">>),
      Text(<<"5", "0">>),
      Text(<<"2", "0", "0", "0">>),
      Text(<<"2", "0", "0", "1">>) }

InputRows == [url : Urls, price_raw : PriceCells, area_m2 : AreaCells]

InputTables == UNION {[1..n -> InputRows] : n \in 0..MaxRows}

InitClean ==
    /\ df \in InputTables
    /\ mpc = "start"
    /\ out = <<>> /\ out_imputed = <<>>
    /\ IdlePrice /\ IdleCrawl

\* lines 137-154 when parse_price_to_million raises on a row that is kept:
\* the exception leaves main, nothing is written
MainRaises ==
    /\ mpc = "start"
    /\ LET kept == drop_duplicates(df, {})
       IN  \E i \in 1..Len(kept) : PriceOf(kept[i]).kind = "raise"
    /\ mpc' = "raised"
    /\ UNCHANGED <<df, out, out_imputed, priceVars, crawlVars>>

\* lines 137-197: the cleaned file is written
WriteClean ==
    /\ mpc = "start"
    /\ LET kept == drop_duplicates(df, {})
       IN  /\ \A i \in 1..Len(kept) : PriceOf(kept[i]).kind # "raise"
           /\ out' = [i \in 1..Len(kept) |-> CleanRow(kept[i])]
    /\ mpc' = "cleaned"
    /\ UNCHANGED <<df, out_imputed, priceVars, crawlVars>>

\* lines 199-204: the imputed file is written
WriteImputed ==
    /\ mpc = "cleaned"
    /\ LET area_med == median(Present(out))
       IN  out_imputed' =
               [i \in 1..Len(out) |->
                   [out[i] EXCEPT !.area_m2 = fillna(out[i].area_m2, area_med)]]
    /\ mpc' = "done"
    /\ UNCHANGED <<df, out, priceVars, crawlVars>>

NextClean ==
    \/ MainRaises
    \/ WriteClean
    \/ WriteImputed

SpecClean == InitClean /\ [][NextClean]_vars

----------------------------------------------------------------------------
(* crawl, homedy_crawler.py lines 73-106.  What the site answers to a GET  *)
(* is the environment's choice at every fetch: a failure, or a page with   *)
(* its items and its next-page link.                                       *)

max_pages == MaxPages

PageUrls == {"p1", "p2"}

\* the item lists a page may hold; extract_from_item raises on "bad"
ItemLists == { <<>>, <<"a">>, <<"a", "bad">>, <<"bad", "b">> }

\* find_next_page: "" stands for None
NextLinks == PageUrls \cup {""}

Pages == [items : ItemLists, next : NextLinks]

\* lines 93-98: the records of a page's items, the failing ones skipped
RECURSIVE ExtractAll(_, _)
ExtractAll(items, u) ==
    IF items = <<>> THEN <<>>
    ELSE IF Head(items) = "bad" THEN ExtractAll(Tail(items), u)
    ELSE <<[item |-> Head(items), page_url |-> u]>> \o ExtractAll(Tail(items), u)

\* the loop condition without the page limit
LoopCond_NoLimit == url # ""

\* line 77
LoopCond == url # "" /\ page < max_pages

InitCrawl ==
    /\ url \in PageUrls
    /\ page = 0
    /\ results = <<>>
    /\ cpc = "loop"
    /\ soup = [items |-> <<>>, next |-> ""]
    /\ fetched = <<>>
    /\ failed_at = 0
    /\ IdlePrice /\ IdleClean

\* line 77 false, then line 106
LoopExit ==
    /\ cpc = "loop" /\ ~LoopCond
    /\ cpc' = "done"
    /\ UNCHANGED <<url, page, results, soup, fetched, failed_at,
                   priceVars, cleanVars>>

\* FetchFails with continue in place of break
FetchFails_Retry ==
    /\ cpc = "loop" /\ url # "" /\ page < max_pages
    /\ page' = page + 1
    /\ failed_at' = page + 1
    /\ cpc' = "loop"
    /\ UNCHANGED <<url, results, soup, fetched, priceVars, cleanVars>>

\* lines 78-85: the request raises, break, then line 106
FetchFails ==
    /\ cpc = "loop" /\ LoopCond
    /\ page' = page + 1
    /\ failed_at' = page + 1
    /\ cpc' = "done"
    /\ UNCHANGED <<url, results, soup, fetched, priceVars, cleanVars>>

\* lines 78-98: the page is fetched and its records appended
FetchOk ==
    /\ cpc = "loop" /\ LoopCond
    /\ page' = page + 1
    /\ \E content \in Pages :
           /\ soup' = content
           /\ results' = results \o ExtractAll(content.items, url)
           /\ fetched' = Append(fetched, ExtractAll(content.items, url))
    /\ cpc' = "fetched"
    /\ UNCHANGED <<url, failed_at, priceVars, cleanVars>>

\* lines 100-103: no next page, break, then line 106
NoNextPage ==
    /\ cpc = "fetched" /\ soup.next = ""
    /\ cpc' = "done"
    /\ UNCHANGED <<url, page, results, soup, fetched, failed_at,
                   priceVars, cleanVars>>

\* lines 100-105
GoToNextPage ==
    /\ cpc = "fetched" /\ soup.next # ""
    /\ url' = soup.next
    /\ cpc' = "loop"
    /\ UNCHANGED <<page, results, soup, fetched, failed_at,
                   priceVars, cleanVars>>

NextCrawl ==
    \/ LoopExit
    \/ FetchFails
    \/ FetchOk
    \/ NoNextPage
    \/ GoToNextPage

SpecCrawl == InitCrawl /\ [][NextCrawl]_vars

\* the interpreter keeps running crawl until it returns
FairSpecCrawl == SpecCrawl /\ WF_vars(NextCrawl)

----------------------------------------------------------------------------
(* The three programs together *)

Init == InitPrice \/ InitClean \/ InitCrawl

Next == NextPrice \/ NextClean \/ NextCrawl

Spec == Init /\ [][Next]_vars

----------------------------------------------------------------------------
(* Properties of parse_price_to_million *)

Returned == ppc = "returned"

\* the lowercased text the call was given
Txt == lower(s.chars)

\* C1: a text that contains a negotiable marker ('thoa' with or without the
\* hook, 'thoa thuan') makes parse_price_to_million return None, normally.
C1_NegotiableReturnsNone ==
    (Returned /\ s.isstr /\ IsNegotiable(Txt)) => ret = NoneVal

\* C2: whatever the input, parse_price_to_million ends by returning None or
\* a non-negative number; no exception leaves it and nothing else is returned.
C2_NoneOrNonNegative ==
    Returned =>
        \/ ret.kind = "None"
        \/ ret.kind = "float" /\ ret.val.n >= 0

BillionMarker ==
    \/ Contains(Txt, <<"t", "y_hook">>)
    \/ Contains(Txt, <<"t", "y">>)
    \/ Contains(Txt, <<"t", "y_dot">>)

MillionMarker ==
    \/ Contains(Txt, <<"t", "r", "i", "e_circ_dot", "u">>)
    \/ Contains(Txt, <<"t", "r", "i", "e", "u">>)

Example58Trieu == <<"5", "8", " ", "T", "r", "i", "e_circ_dot", "u">>
Example12c5Ty == <<"1", "2", ",", "5", " ", "T", "y_hook">>
ExampleRangeTy == <<"5", " ", "-", " ", "5", ",", "2", " ", "T", "y_hook">>

ReturnsFor(example, k) ==
    (Returned /\ s.isstr /\ strip(s.chars) = example)
        => ret = FloatVal(RatOfInt(k))

\* C3: with a unit word in the text and at least one number extracted, the
\* result is the arithmetic mean of the extracted numbers, times 1000 when a
\* billion marker is present (also beside a million marker) and times 1 when
\* only a million marker is; '58 Trieu' gives 58, '12,5 Ty' gives 12500 and
\* '5 - 5,2 Ty' gives 5100.
C3_ExplicitUnitMean ==
    /\ (Returned /\ nums # <<>> /\ (BillionMarker \/ MillionMarker))
           => ret = FloatVal(RatMulInt(RatDivInt(RatSum(nums), Len(nums)),
                                       IF BillionMarker THEN 1000 ELSE 1))
    /\ ReturnsFor(Example58Trieu, 58)
    /\ ReturnsFor(Example12c5Ty, 12500)
    /\ ReturnsFor(ExampleRangeTy, 5100)

\* '5 - 5,2 Ty' was parsed: two numbers, the billion marker, 5100
C3_Witness ==
    /\ Returned /\ s.isstr /\ strip(s.chars) = ExampleRangeTy
    /\ Len(nums) = 2 /\ BillionMarker
    /\ ret = FloatVal(RatOfInt(5100))

NoUnitWord == ~HasTy(Txt) /\ ~HasTrieu(Txt) /\ ~HasTrieuLatin(Txt)

SomeAbove1000 == \E i \in 1..Len(nums) : RatLt(RatOfInt(1000), nums[i])
SomeBelow100 == \E i \in 1..Len(nums) : RatLt(nums[i], RatOfInt(100))
AllAtMost1000 == \A i \in 1..Len(nums) : RatLe(nums[i], RatOfInt(1000))
StandaloneT ==
    \E i \in 1..Len(Txt) :
        /\ Txt[i] = "t"
        /\ (i = 1 \/ Txt[i - 1] = " ")
        /\ (i = Len(Txt) \/ Txt[i + 1] = " ")

\* the unit the heuristics of the claim give, in their order
HeuristicUnit ==
    IF SomeAbove1000 THEN "trieu"
    ELSE IF SomeBelow100 /\ StandaloneT THEN "ty"
    ELSE IF AllAtMost1000 THEN "ty"
    ELSE "trieu"

\* C9: with no unit word in the text and at least one number extracted, the
\* unit is the one the heuristics give in their order, so the result is the
\* mean when some number exceeds 1000 and the mean times 1000 otherwise.
C9_InferredUnit ==
    (Returned /\ nums # <<>> /\ NoUnitWord) =>
        /\ unit = HeuristicUnit
        /\ ret = FloatVal(IF SomeAbove1000 THEN mean(nums)
                          ELSE RatMulInt(mean(nums), 1000))

\* no unit word, two numbers, one above 1000 and one below 100 beside a
\* standalone t: heuristic (a) decides before (b)
C9_Witness ==
    /\ Returned /\ NoUnitWord /\ Len(nums) = 2
    /\ SomeAbove1000 /\ SomeBelow100 /\ StandaloneT
    /\ unit = "trieu" /\ ret = FloatVal(mean(nums))

\* the run of digits and separators that starts at the first digit of p
RECURSIVE SepDigitRun(_, _)
SepDigitRun(p, i) ==
    IF i <= Len(p) /\ p[i] \in Digits \cup {",", "."}
    THEN 1 + SepDigitRun(p, i + 1)
    ELSE 0

WrittenNumber(p) ==
    LET i == FirstDigit(p, 1)
    IN  IF i = 0 THEN <<>> ELSE SubSeq(p, i, i + SepDigitRun(p, i) - 1)

\* the number C10 reads from a written number: a lone comma is a decimal
\* point, every other separator is stripped
ClaimedRead(w) ==
    IF Count(w, ",") = 1 /\ Count(w, ".") = 0
    THEN ToFloat([i \in 1..Len(w) |-> IF w[i] = "," THEN "." ELSE w[i]])
    ELSE RatOfInt(DigitsToInt(Remove(Remove(w, ","), ".")))

RECURSIVE ClaimedNums(_)
ClaimedNums(parts) ==
    IF parts = <<>> THEN <<>>
    ELSE LET w == WrittenNumber(Head(parts))
         IN  IF w = <<>> THEN ClaimedNums(Tail(parts))
             ELSE <<ClaimedRead(w)>> \o ClaimedNums(Tail(parts))

\* C10: the number read from each range segment is its first written number,
\* a lone comma being a decimal point ('12,5' is 12.5) and the separators
\* being stripped otherwise ('1,234,567' is 1234567, '12.500' is 12500).
C10_SeparatorsStripped ==
    (Returned /\ nums # <<>>) => nums = ClaimedNums(re_split(raw))

----------------------------------------------------------------------------
(* Properties of main *)

Cleaned == mpc \in {"cleaned", "done"}

\* the input rows that are the first of their url
FirstOfUrl == {i \in 1..Len(df) : \A j \in 1..(i - 1) : df[j].url # df[i].url}

\* the k-th of them in input order
KthFirst(k) ==
    CHOOSE i \in FirstOfUrl : Cardinality({j \in FirstOfUrl : j < i}) = k - 1

\* C4: the url is unique in the cleaned output; of the input rows of one url
\* exactly the first is retained, and the retained rows keep their order.
C4_UrlUniqueFirstKept ==
    Cleaned =>
        /\ \A a, b \in 1..Len(out) : a # b => out[a].url # out[b].url
        /\ Len(out) = Cardinality(FirstOfUrl)
        /\ \A k \in 1..Len(out) :
               /\ out[k].url = df[KthFirst(k)].url
               /\ out[k].price_raw_orig = df[KthFirst(k)].price_raw
               /\ out[k].area_m2 = clean_area(df[KthFirst(k)].area_m2)

\* three rows, the third a duplicate of the first with another area
C4_Witness ==
    /\ Cleaned /\ Len(df) = 3 /\ Len(out) = 2
    /\ df[1].url = df[3].url /\ df[2].url # df[1].url
    /\ clean_area(df[1].area_m2) # clean_area(df[3].area_m2)
    /\ out[1].url = df[1].url /\ out[2].url = df[2].url

NeverAbsent == \A k \in 1..Len(out_imputed) : ~out_imputed[k].area_m2.na

\* m is the median of the values qs (qs not empty)
IsMedianOf(m, qs) ==
    LET n == Len(qs)
    IN  IF n % 2 = 1
        THEN /\ \E i \in 1..n : qs[i] = m
             /\ 2 * Cardinality({i \in 1..n : RatLt(qs[i], m)}) < n
             /\ 2 * Cardinality({i \in 1..n : RatLt(m, qs[i])}) < n
        ELSE \E i, j \in 1..n :
                 /\ i # j /\ RatLe(qs[i], qs[j])
                 /\ m = RatDivInt(RatAdd(qs[i], qs[j]), 2)
                 /\ LET others == (1..n) \ {i, j}
                        lo == {k \in others : RatLe(qs[k], qs[i])}
                        hi == {k \in others : RatLe(qs[j], qs[k])}
                    IN  /\ lo \cup hi = others
                        /\ 2 * Cardinality(lo) >= n - 2
                        /\ 2 * Cardinality(hi) >= n - 2

ImputedByMedian ==
    /\ Len(out_imputed) = Len(out)
    /\ \A k \in 1..Len(out) :
           /\ out_imputed[k].url = out[k].url
           /\ ~out[k].area_m2.na => out_imputed[k].area_m2 = out[k].area_m2
           /\ out[k].area_m2.na =>
                  /\ ~out_imputed[k].area_m2.na
                  /\ IsMedianOf(out_imputed[k].area_m2.val, Present(out))

\* C5 as stated: whatever the input table, area_m2 is never absent in the
\* imputed output; the absent ones carry the median of the present ones and
\* the present ones are unchanged.
C5_NeverAbsent ==
    mpc = "done" => (NeverAbsent /\ ImputedByMedian)

\* C5 amended: when some area_m2 is present in the cleaned output, area_m2 is
\* never absent in the imputed output, the absent ones carry the median of
\* the present ones and the present ones are unchanged; when none is present
\* every area_m2 of the imputed output is absent.
C5_ImputedWhenSomePresent ==
    mpc = "done" =>
        IF Present(out) # <<>>
        THEN NeverAbsent /\ ImputedByMedian
        ELSE /\ Len(out_imputed) = Len(out)
             /\ \A k \in 1..Len(out) : out_imputed[k].area_m2.na

\* two different areas present and one absent: the absent one got their mean
C5_Witness ==
    /\ mpc = "done" /\ Len(out) = 3
    /\ out[1].area_m2 = Num(RatOfInt(50))
    /\ out[2].area_m2.na
    /\ out[3].area_m2 = Num(RatOfInt(2000))
    /\ out_imputed[2].area_m2 = Num(RatOfInt(1025))

\* C6: every area_m2 of the cleaned output is absent or in (0, 2000]; an
\* input that is unparsable, <= 0 or > 2000 is absent, an input in (0, 2000]
\* is kept as that number.
C6_AreaInRange ==
    Cleaned =>
        \A k \in 1..Len(out) :
            LET a == out[k].area_m2
                x == to_numeric(df[KthFirst(k)].area_m2)
                valid == /\ ~x.na
                         /\ RatLt(RatOfInt(0), x.val)
                         /\ RatLe(x.val, RatOfInt(2000))
            IN  /\ a.na \/ (RatLt(RatOfInt(0), a.val) /\ RatLe(a.val, RatOfInt(2000)))
                /\ valid => a = x
                /\ ~valid => a.na

\* inputs 2000, 0, 2001 and an unparsable one: kept, absent, absent, absent
C6_Witness ==
    /\ Cleaned /\ Len(out) = 3 /\ Len(df) = 3
    /\ df[1].area_m2 = Text(<<"2", "0", "0", "0">>)
    /\ df[2].area_m2 = Text(<<"0">>)
    /\ df[3].area_m2 \in {Text(<<"2", "0", "0", "1">>), Text(<<"a">>)}
    /\ out[1].area_m2 = Num(RatOfInt(2000))
    /\ out[2].area_m2.na
    /\ out[3].area_m2.na

----------------------------------------------------------------------------
(* Properties of crawl *)

RECURSIVE Concat(_)
Concat(ss) == IF ss = <<>> THEN <<>> ELSE Head(ss) \o Concat(Tail(ss))

IsPrefix(a, b) == Len(a) <= Len(b) /\ SubSeq(b, 1, Len(a)) = a

\* C7: when the fetch of page k fails, crawl stops there, fetches nothing
\* more, and returns the records of pages 1..k-1 in page order; records once
\* accumulated are never removed or altered.
C7_FailedFetchReturnsPartial ==
    /\ [](failed_at > 0 =>
            /\ cpc = "done"
            /\ page = failed_at
            /\ Len(fetched) = failed_at - 1
            /\ results = Concat(fetched))
    /\ [][IsPrefix(results, results')]_vars

\* the third fetch failed after two pages that gave records
C7_Witness ==
    /\ cpc = "done" /\ failed_at = 3
    /\ Len(fetched) = 2 /\ fetched[1] # <<>> /\ fetched[2] # <<>>
    /\ results = fetched[1] \o fetched[2]

\* C8: crawl terminates, whatever the pages answer and also when next-page
\* links lead back to a page already visited; it fetches at most max_pages
\* times, and it stops right after the first fetched page without a next
\* link, keeping that page's records.
C8_Terminates ==
    /\ <>(cpc = "done")
    /\ [](page <= max_pages)
    /\ [](cpc = "fetched" =>
            /\ results = Concat(fetched)
            /\ fetched[Len(fetched)] = ExtractAll(soup.items, url))
    /\ [][(cpc = "fetched" /\ soup.next = "") =>
            (cpc' = "done" /\ results' = results /\ page' = page)]_vars

\* max_pages fetches went round a cycle: page 2 was the url of page 1 again,
\* and a next link was still pending when crawl returned
C8_Witness ==
    /\ cpc = "done" /\ failed_at = 0 /\ page = max_pages
    /\ Len(fetched) = max_pages
    /\ fetched[1] # <<>> /\ fetched[2] # <<>>
    /\ fetched[1][1].page_url = fetched[2][1].page_url
    /\ soup.next # ""

====
